---- MODULE Spec2Model ----
(***************************************************************************)
(* A model of streamlit_app.py: the worksheet generator's pure helpers     *)
(* (classify_level, transform_thesis_format, build_rag_context,            *)
(* split_worksheet_and_answer) and the session state machine of main()     *)
(* (threshold / grade widgets, "Process student data", "Generate PDFs for  *)
(* this group").                                                           *)
(*                                                                         *)
(* Text is modelled by TLA+ strings, one character per position.  Scores   *)
(* and thresholds are integers.  A table is a record                       *)
(*   [cols |-> sequence of column names, rows |-> sequence of rows]        *)
(* where a row is a function from the column names to cell values.         *)
(***************************************************************************)
EXTENDS Integers, Sequences, FiniteSets, TLC

VARIABLES
    low_thr,            \* st.slider "Low threshold"
    high_thr,           \* st.slider "High threshold"
    grade_for_low,      \* st.selectbox "Curriculum grade for LOW"
    grade_for_medium,   \* st.selectbox "Curriculum grade for MEDIUM"
    grade_for_high,     \* st.selectbox "Curriculum grade for HIGH"
    processed_df,       \* st.session_state["processed_df"]
    curriculum_df,      \* st.session_state["curriculum_df"]
    curriculum_file,    \* the file held by st.file_uploader "Upload curriculum bank CSV"
    curriculum_msg,     \* what lines 529-536 reported in the latest run
    proc_cfg,           \* history: the widget values read by the run that stored processed_df
    process_msg,        \* what the "Process student data" button reported in the latest run
    generate_msg,       \* what the "Generate Worksheets" tab reported in the latest run
    selection,          \* the skill / level / target_df of the latest "Generate" click
    requests,           \* the generate_worksheet calls issued by the latest run, in order
    downloads,          \* the (worksheet, answer key) pairs offered by the latest run
    fn_args,            \* arguments of the helper function under check
    fn_ret              \* its return value, once called

app_vars == <<low_thr, high_thr, grade_for_low, grade_for_medium, grade_for_high,
              processed_df, curriculum_df, curriculum_file, curriculum_msg,
              proc_cfg, process_msg, generate_msg, selection, requests, downloads>>
fn_vars == <<fn_args, fn_ret>>
vars == <<app_vars, fn_vars>>

None == [none |-> TRUE]
NotCalled == [called |-> FALSE]

(***************************************************************************)
(* Strings                                                                 *)
(***************************************************************************)
CharAt(s, i) == SubSeq(s, i, i)

LowerAlpha == "abcdefghijklmnopqrstuvwxyz"
UpperAlpha == "ABCDEFGHIJKLMNOPQRSTUVWXYZ"

\* str.upper() of one character: a-z, and U+00DF, whose upper-case form "SS" is
\* longer than the character itself; the other characters of the model (digits,
\* punctuation, whitespace, A-Z) are their own upper-case form.
UpperTable == [c \in {CharAt(LowerAlpha, i) : i \in 1..Len(LowerAlpha)} |->
                 CharAt(UpperAlpha, CHOOSE k \in 1..Len(LowerAlpha) : CharAt(LowerAlpha, k) = c)]
UpperChar(c) ==
    IF c \in DOMAIN UpperTable THEN UpperTable[c]
    ELSE IF c = "ß" THEN "SS"
    ELSE c

\* str.lower() of one character (of the characters the model uses).
LowerTable == [c \in {CharAt(UpperAlpha, i) : i \in 1..Len(UpperAlpha)} |->
                 CharAt(LowerAlpha, CHOOSE k \in 1..Len(UpperAlpha) : CharAt(UpperAlpha, k) = c)]
LowerChar(c) ==
    IF c \in DOMAIN LowerTable THEN LowerTable[c]
    ELSE c

RECURSIVE Upper(_)
Upper(s) == IF s = "" THEN "" ELSE UpperChar(CharAt(s, 1)) \o Upper(Tail(s))

RECURSIVE Lower(_)
Lower(s) == IF s = "" THEN "" ELSE LowerChar(CharAt(s, 1)) \o Lower(Tail(s))

\* s[a:b] of Python for 0 <= a, 0 <= b (0-based, b exclusive, clipped to len(s)).
Slice(s, a, b) ==
    LET hi == IF b > Len(s) THEN Len(s) ELSE b
    IN  IF a >= hi THEN "" ELSE SubSeq(s, a + 1, hi)

\* str.find(sub): the lowest 0-based index where sub occurs, -1 when it does not.
Find(s, sub) ==
    LET hits == {i \in 0..(Len(s) - Len(sub)) : Slice(s, i, i + Len(sub)) = sub}
    IN  IF hits = {} THEN -1
        ELSE CHOOSE i \in hits : \A j \in hits : i <= j

IsSpace(c) ==
    c \in {" ", "\t", "\n", "\r", "\f", "", "", "", "", "", "", " "}

\* str.strip(): leading and trailing whitespace removed.
RECURSIVE LStrip(_)
LStrip(s) == IF s # "" /\ IsSpace(CharAt(s, 1)) THEN LStrip(Tail(s)) ELSE s
RECURSIVE RStrip(_)
RStrip(s) ==
    IF s # "" /\ IsSpace(CharAt(s, Len(s))) THEN RStrip(SubSeq(s, 1, Len(s) - 1)) ELSE s
Strip(s) == RStrip(LStrip(s))

\* str(n) for an integer n.
Digits == "0123456789"
RECURSIVE NatToStr(_)
NatToStr(n) ==
    IF n < 10 THEN CharAt(Digits, n + 1)
    ELSE NatToStr(n \div 10) \o CharAt(Digits, (n % 10) + 1)
IntToStr(n) == IF n < 0 THEN "-" \o NatToStr(-n) ELSE NatToStr(n)

(***************************************************************************)
(* classify_level                                                          *)
(***************************************************************************)
\* A variant that puts a score equal to a threshold in the lower tier.
classify_level_strict(score, low, high) ==
    IF score <= low THEN "Low"
    ELSE IF score <= high THEN "Medium"
    ELSE "High"

classify_level(score, low, high) ==
    IF score < low THEN "Low"
    ELSE IF score < high THEN "Medium"
    ELSE "High"

(***************************************************************************)
(* Tables (pandas DataFrames)                                              *)
(***************************************************************************)
Range(seq) == {seq[i] : i \in DOMAIN seq}
Columns(df) == Range(df.cols)
SeqsUpTo(S, n) == UNION {[1..k -> S] : k \in 0..n}

\* DataFrame.melt(id_vars, value_vars, var_name, value_name): for each value
\* column in turn, one row per row of df, holding the id columns, the value
\* column's name and its value.  The other columns of df are not kept.
melt(df, id_vars, value_vars, var_name, value_name) ==
    LET n == Len(df.rows)
        newcols == id_vars \o <<var_name, value_name>>
        cell(src, var, c) ==
            IF c = var_name THEN var
            ELSE IF c = value_name THEN src[var]
            ELSE src[c]
    IN  [cols |-> newcols,
         rows |-> [k \in 1..(n * Len(value_vars)) |->
                     LET var == value_vars[((k - 1) \div n) + 1]
                         src == df.rows[((k - 1) % n) + 1]
                     IN  [c \in Range(newcols) |-> cell(src, var, c)]]]

\* DataFrame.rename(columns={old: new}); from and to list the old and new names.
rename(df, from, to) ==
    LET new(c) == IF \E i \in DOMAIN from : from[i] = c
                  THEN to[CHOOSE i \in DOMAIN from : from[i] = c]
                  ELSE c
        old(c) == IF \E i \in DOMAIN to : to[i] = c
                  THEN from[CHOOSE i \in DOMAIN to : to[i] = c]
                  ELSE c
        newcols == [i \in DOMAIN df.cols |-> new(df.cols[i])]
    IN  [cols |-> newcols,
         rows |-> [k \in DOMAIN df.rows |->
                     [c \in Range(newcols) |-> df.rows[k][old(c)]]]]

(***************************************************************************)
(* transform_thesis_format                                                 *)
(***************************************************************************)
thesis_cols == {"StudentNumber", "StudentName", "LanguageFunction",
                "ReadingComprehension", "Grammar", "Writing"}
thesis_id_vars == <<"StudentNumber", "StudentName">>
thesis_value_vars == <<"LanguageFunction", "ReadingComprehension", "Grammar", "Writing">>

\* A variant that leaves the last skill column (Writing) out of the melt.
transform_thesis_format_three_skills(df) ==
    IF thesis_cols \subseteq Columns(df)
    THEN rename(melt(df, thesis_id_vars, SubSeq(thesis_value_vars, 1, 3), "skill", "score"),
                <<"StudentNumber", "StudentName">>, <<"student_id", "student_name">>)
    ELSE df

transform_thesis_format(df) ==
    IF thesis_cols \subseteq Columns(df)
    THEN rename(melt(df, thesis_id_vars, thesis_value_vars, "skill", "score"),
                <<"StudentNumber", "StudentName">>, <<"student_id", "student_name">>)
    ELSE df


(***************************************************************************)
(* Specification SpecClassify: classify_level on every score and threshold *)
(* pair of a bounded range.                                                *)
(***************************************************************************)
MaxScore == 8
ScoreRange == (0 - 1)..(MaxScore + 1)
ThresholdRange == 0..MaxScore

AppIdle ==
    /\ low_thr = 50
    /\ high_thr = 75
    /\ grade_for_low = 1
    /\ grade_for_medium = 5
    /\ grade_for_high = 5
    /\ processed_df = None
    /\ curriculum_df = None
    /\ curriculum_file = None
    /\ curriculum_msg = "none"
    /\ proc_cfg = None
    /\ process_msg = "none"
    /\ generate_msg = "process_first"
    /\ selection = None
    /\ requests = <<>>
    /\ downloads = <<>>

InitClassify ==
    /\ AppIdle
    /\ fn_args \in [score : ScoreRange, low : ThresholdRange, high : ThresholdRange]
    /\ fn_ret = NotCalled

CallClassify ==
    /\ ~fn_ret.called
    /\ fn_ret' = [called |-> TRUE,
                  value |-> classify_level(fn_args.score, fn_args.low, fn_args.high)]
    /\ UNCHANGED <<fn_args, app_vars>>

SpecClassify == InitClassify /\ [][CallClassify]_vars

\* C1: with low < high, classify_level returns Low exactly when score < low,
\* Medium exactly when low <= score < high, and High exactly when score >= high
\* (a score equal to a threshold is in the higher tier).
C1_ClassifyRule ==
    (fn_ret.called /\ fn_args.low < fn_args.high) =>
        /\ (fn_ret.value = "Low") <=> (fn_args.score < fn_args.low)
        /\ (fn_ret.value = "Medium") <=>
               (fn_args.low <= fn_args.score /\ fn_args.score < fn_args.high)
        /\ (fn_ret.value = "High") <=> (fn_args.score >= fn_args.high)

\* A score equal to the high threshold has been classified (as High), with the
\* low threshold below it.
C1_Witness ==
    /\ fn_ret.called
    /\ fn_args.low < fn_args.high
    /\ fn_args.score = fn_args.high
    /\ fn_ret.value = "High"

(***************************************************************************)
(* Specification SpecNormalize: transform_thesis_format on every table of  *)
(* up to MaxStudents rows over each of the column layouts below.           *)
(***************************************************************************)
MaxStudents == 2

WideRows ==
    [StudentNumber : {1, 2}, StudentName : {"Amal", "Sara"},
     LanguageFunction : {80, 50}, ReadingComprehension : {60},
     Grammar : {40, 45}, Writing : {90}]
WideCols == <<"StudentNumber", "StudentName", "LanguageFunction",
              "ReadingComprehension", "Grammar", "Writing">>
LongRows ==
    [student_id : {1, 2}, student_name : {"Amal", "Sara"},
     skill : {"Grammar", "Writing"}, score : {40, 80}]
LongCols == <<"student_id", "student_name", "skill", "score">>

Without(row, c) == [k \in (DOMAIN row) \ {c} |-> row[k]]
With(row, c, v) == [k \in (DOMAIN row) \cup {c} |-> IF k = c THEN v ELSE row[k]]
SeqWithout(seq, c) == SelectSeq(seq, LAMBDA x : x # c)

TablesOver(cols, rowset) ==
    {[cols |-> cols, rows |-> r] : r \in SeqsUpTo(rowset, MaxStudents)}

NormalizeInputs ==
    \* the wide layout, the wide layout with one more column, the wide layout
    \* lacking one of its six columns, and the long layout
    TablesOver(WideCols, WideRows)
    \cup TablesOver(WideCols \o <<"Class">>, {With(r, "Class", "5A") : r \in WideRows})
    \cup UNION {TablesOver(SeqWithout(WideCols, c), {Without(r, c) : r \in WideRows})
                    : c \in {"StudentName", "Writing", "Grammar"}}
    \cup TablesOver(LongCols, LongRows)

InitNormalize ==
    /\ AppIdle
    /\ fn_args \in [df : NormalizeInputs]
    /\ fn_ret = NotCalled

CallNormalize ==
    /\ ~fn_ret.called
    /\ fn_ret' = [called |-> TRUE, value |-> transform_thesis_format(fn_args.df)]
    /\ UNCHANGED <<fn_args, app_vars>>

SpecNormalize == InitNormalize /\ [][CallNormalize]_vars

\* The long row the claim expects for input row src and skill column c.
ExpectedLongRow(src, c) ==
    [student_id |-> src.StudentNumber, student_name |-> src.StudentName,
     skill |-> c, score |-> src[c]]
Occurrences(seq, x) == Cardinality({i \in DOMAIN seq : seq[i] = x})

\* C3: with all six wide columns present, the output has exactly 4 times the
\* input rows, every output row is the (student_id, student_name, skill, score)
\* row of some input row and skill column, and each such row occurs as often in
\* the output as the input rows yielding it occur in the input (nothing dropped,
\* nothing duplicated); with any of the six columns absent, the output is the
\* input table unchanged.
C3_NormalizeRows ==
    fn_ret.called =>
        LET in == fn_args.df
            out == fn_ret.value
        IN  IF thesis_cols \subseteq Columns(in)
            THEN /\ Len(out.rows) = 4 * Len(in.rows)
                 /\ Columns(out) = {"student_id", "student_name", "skill", "score"}
                 /\ \A j \in DOMAIN out.rows :
                        \E i \in DOMAIN in.rows : \E c \in Range(thesis_value_vars) :
                            out.rows[j] = ExpectedLongRow(in.rows[i], c)
                 /\ \A i \in DOMAIN in.rows : \A c \in Range(thesis_value_vars) :
                        Occurrences(out.rows, ExpectedLongRow(in.rows[i], c))
                          = Cardinality({k \in DOMAIN in.rows :
                                ExpectedLongRow(in.rows[k], c)
                                  = ExpectedLongRow(in.rows[i], c)})
            ELSE out = in

\* A wide table of two identical rows has been reshaped into eight rows.
C3_Witness ==
    /\ fn_ret.called
    /\ thesis_cols \subseteq Columns(fn_args.df)
    /\ Len(fn_args.df.rows) = 2
    /\ fn_args.df.rows[1] = fn_args.df.rows[2]
    /\ Len(fn_ret.value.rows) = 8

(***************************************************************************)
(* build_rag_context                                                       *)
(*                                                                         *)
(* Cells of the curriculum bank carry their pandas type: an integer, a     *)
(* float with an integral value (an integer column that has a missing      *)
(* value), a string, or NaN (a missing value).                             *)
(***************************************************************************)
IntCell(n) == [t |-> "int", i |-> n]
FloatCell(n) == [t |-> "float", f |-> n]
StrCell(s) == [t |-> "str", s |-> s]
NaN == [t |-> "nan"]

\* pd.notna(v)
notna(cell) == cell.t # "nan"

\* str(v), Series.astype(str) and f"{v}" of a cell
str(cell) ==
    CASE cell.t = "int" -> IntToStr(cell.i)
      [] cell.t = "float" -> IntToStr(cell.f) \o ".0"
      [] cell.t = "str" -> cell.s
      [] cell.t = "nan" -> "nan"

\* sep.join(parts)
RECURSIVE Join(_, _)
Join(parts, sep) ==
    IF parts = <<>> THEN ""
    ELSE IF Len(parts) = 1 THEN parts[1]
    ELSE parts[1] \o sep \o Join(Tail(parts), sep)

\* What a Python call does: it returns a value or raises.
Return(v) == [raised |-> FALSE, value |-> v]
Raise(e) == [raised |-> TRUE, exc |-> e]

\* bullets[:8]
RagLimit == 8

\* The mask of lines 111-114 for one row.
rag_mask(row, skill, curriculum_grade) ==
    /\ str(row["grade"]) = IntToStr(curriculum_grade)
    /\ Lower(str(row["skill"])) = Lower(skill)

\* Lines 121-126: the bullet of one row of the subset.
rag_bullet(cols, row) ==
    LET rest_cols == SelectSeq(cols, LAMBDA c :
                         c \notin {"grade_str", "grade", "skill"} /\ notna(row[c]))
        rest == Join([i \in DOMAIN rest_cols |->
                         rest_cols[i] \o ": " \o str(row[rest_cols[i]])], " | ")
    IN  "- Grade " \o str(row["grade"]) \o ", Skill " \o str(row["skill"]) \o ": " \o rest

\* Lines 109-128, the body of the try.
rag_try_body(curriculum_df_, skill, curriculum_grade) ==
    LET subset == SelectSeq(curriculum_df_.rows,
                            LAMBDA row : rag_mask(row, skill, curriculum_grade))
        bullets == [i \in DOMAIN subset |-> rag_bullet(curriculum_df_.cols, subset[i])]
    IN  IF subset = <<>> THEN Return("")
        ELSE Return(Join(SubSeq(bullets, 1, IF Len(bullets) > RagLimit
                                            THEN RagLimit ELSE Len(bullets)), "\n"))

\* A variant that does not trim the bullet list to RagLimit.
build_rag_context_untrimmed(curriculum_df_, skill, curriculum_grade) ==
    IF curriculum_df_ = None THEN Return("")
    ELSE IF ~({"grade", "skill"} \subseteq Columns(curriculum_df_)) THEN Return("")
    ELSE LET subset == SelectSeq(curriculum_df_.rows,
                            LAMBDA row : rag_mask(row, skill, curriculum_grade))
         IN  Return(Join([i \in DOMAIN subset |->
                             rag_bullet(curriculum_df_.cols, subset[i])], "\n"))

\* A variant without the None test and the required-columns test, and whose
\* lookups are outside the try.
build_rag_context_unguarded(curriculum_df_, skill, curriculum_grade) ==
    IF curriculum_df_ = None THEN Raise("AttributeError")
    ELSE IF ~({"grade", "skill"} \subseteq Columns(curriculum_df_)) THEN Raise("KeyError")
    ELSE rag_try_body(curriculum_df_, skill, curriculum_grade)

build_rag_context(curriculum_df_, skill, curriculum_grade) ==
    IF curriculum_df_ = None THEN Return("")
    ELSE IF ~({"grade", "skill"} \subseteq Columns(curriculum_df_)) THEN Return("")
    ELSE LET r == rag_try_body(curriculum_df_, skill, curriculum_grade)
         IN  IF r.raised THEN Return("") ELSE r

(***************************************************************************)
(* Specification SpecRag: build_rag_context on curriculum banks of up to   *)
(* MaxBankRows rows of every kind, and on banks of up to                   *)
(* RagLimit + MaxExtraRows rows of matching and non-matching entries.      *)
(***************************************************************************)
MaxBankRows == 2
MaxExtraRows == 2

BankCols == <<"grade", "skill", "topic">>
BankRows ==
    [grade : {IntCell(3), StrCell("3"), FloatCell(3), IntCell(4)},
     skill : {StrCell("Grammar"), StrCell("GRAMMAR"), StrCell("Writing")},
     topic : {StrCell("Verbs"), NaN}]
    \cup {[grade |-> NaN, skill |-> StrCell("grammar"), topic |-> StrCell("Verbs")],
          [grade |-> IntCell(3), skill |-> NaN, topic |-> StrCell("Verbs")]}

\* Entries of a long bank: row i carries the topic "T<i>".
LongBankKinds ==
    [grade : {IntCell(3), IntCell(4)}, skill : {StrCell("Grammar")}]
LongBanks ==
    {[cols |-> BankCols,
      rows |-> [i \in DOMAIN ks |-> With(ks[i], "topic", StrCell("T" \o IntToStr(i)))]]
        : ks \in UNION {[1..n -> LongBankKinds]
                           : n \in RagLimit..(RagLimit + MaxExtraRows)}}

RagBanks ==
    {None}
    \cup {[cols |-> BankCols, rows |-> r] : r \in SeqsUpTo(BankRows, MaxBankRows)}
    \cup UNION {{[cols |-> SeqWithout(BankCols, c), rows |-> r]
                    : r \in SeqsUpTo({Without(row, c) : row \in BankRows}, 1)}
                   : c \in {"grade", "skill"}}
    \cup LongBanks

InitRag ==
    /\ AppIdle
    /\ fn_args \in [df : RagBanks, skill : {"grammar", "Writing"}, grade : {3}]
    /\ fn_ret = NotCalled

CallRag ==
    /\ ~fn_ret.called
    /\ fn_ret' = [called |-> TRUE,
                  value |-> build_rag_context(fn_args.df, fn_args.skill, fn_args.grade)]
    /\ UNCHANGED <<fn_args, app_vars>>

SpecRag == InitRag /\ [][CallRag]_vars

\* value.split("\n")
RECURSIVE SplitLines(_)
SplitLines(s) ==
    LET i == Find(s, "\n")
    IN  IF i = -1 THEN <<s>>
        ELSE <<Slice(s, 0, i)>> \o SplitLines(Slice(s, i + 1, Len(s)))
StartsWith(s, p) == Len(s) >= Len(p) /\ SubSeq(s, 1, Len(p)) = p
EndsWith(s, p) == Len(s) >= Len(p) /\ SubSeq(s, Len(s) - Len(p) + 1, Len(s)) = p

\* The rows of the bank the claim calls matching, by position.
MatchingRows(df, skill, grade) ==
    {k \in DOMAIN df.rows :
        /\ str(df.rows[k]["grade"]) = IntToStr(grade)
        /\ Lower(str(df.rows[k]["skill"])) = Lower(skill)}
\* The i-th smallest element of a set of positions.
NthOf(M, i) == CHOOSE k \in M : Cardinality({j \in M : j < k}) = i - 1
BulletsOf(ret) == IF ret.value = "" THEN <<>> ELSE SplitLines(ret.value)
RagUsable(df) == df # None /\ {"grade", "skill"} \subseteq Columns(df)

\* C4: for a bank with grade and skill columns the result holds one bullet per
\* row whose grade, as a string, equals the target grade and whose skill equals
\* the queried skill ignoring case, and none for any other row; the bullets are
\* in table order and only the first 8 matching rows are kept.
C4_RagBullets ==
    (fn_ret.called /\ RagUsable(fn_args.df)) =>
        /\ ~fn_ret.value.raised
        /\ LET df == fn_args.df
               M == MatchingRows(df, fn_args.skill, fn_args.grade)
               n == IF Cardinality(M) > 8 THEN 8 ELSE Cardinality(M)
               bullets == BulletsOf(fn_ret.value)
           IN  /\ Len(bullets) = n
               /\ \A i \in 1..n :
                     LET row == df.rows[NthOf(M, i)]
                     IN  /\ StartsWith(bullets[i],
                                "- Grade " \o str(row["grade"]) \o ", Skill "
                                   \o str(row["skill"]) \o ":")
                         /\ notna(row["topic"]) =>
                                EndsWith(bullets[i], "topic: " \o str(row["topic"]))

\* A bank with more than 8 matching rows and a non-matching row among the first
\* 8 has been queried, and 8 bullets came back.
C4_Witness ==
    /\ fn_ret.called
    /\ RagUsable(fn_args.df)
    /\ Cardinality(MatchingRows(fn_args.df, fn_args.skill, fn_args.grade)) > 8
    /\ 2 \notin MatchingRows(fn_args.df, fn_args.skill, fn_args.grade)
    /\ ~fn_ret.value.raised
    /\ Len(BulletsOf(fn_ret.value)) = 8

\* C5: build_rag_context raises nothing to its caller, and returns the empty
\* context when the bank is absent, has no rows, lacks the grade or the skill
\* column, or has no matching row.
C5_RagNeverRaises ==
    fn_ret.called =>
        /\ ~fn_ret.value.raised
        /\ (\/ ~RagUsable(fn_args.df)
            \/ fn_args.df.rows = <<>>
            \/ MatchingRows(fn_args.df, fn_args.skill, fn_args.grade) = {})
              => fn_ret.value.value = ""

\* A bank that has rows but no grade column has been queried, and the empty
\* context came back.
C5_Witness ==
    /\ fn_ret.called
    /\ fn_args.df # None
    /\ "grade" \notin Columns(fn_args.df)
    /\ fn_args.df.rows # <<>>
    /\ ~fn_ret.value.raised
    /\ fn_ret.value.value = ""

(***************************************************************************)
(* split_worksheet_and_answer                                              *)
(***************************************************************************)
marker == "ANSWER KEY:"
placeholder == "ANSWER KEY:\n(Not clearly provided by the model.)"

\* Returns the pair (body, answer).  idx is an index into text.upper(), and is
\* used to cut text itself.
split_worksheet_and_answer(text) ==
    LET idx == Find(Upper(text), marker)
    IN  IF idx = -1
        THEN <<Strip(text), placeholder>>
        ELSE <<Strip(Slice(text, 0, idx)), Strip(Slice(text, idx, Len(text)))>>

(***************************************************************************)
(* Specification SpecSplit: split_worksheet_and_answer on texts made of up *)
(* to MaxSharpS characters U+00DF followed by up to MaxPieces pieces, and   *)
(* then on the body it returned.                                           *)
(***************************************************************************)
MaxSharpS == 11
MaxPieces == 2
Pieces ==
    {"ANSWER KEY:", "answer key:", "Answer Key:\n1) A", "PASSAGE:\nfoo\n", "ß", " ", "\f", "x"}

RECURSIVE Repeat(_, _)
Repeat(s, n) == IF n = 0 THEN "" ELSE s \o Repeat(s, n - 1)

SplitInputs ==
    {Repeat("ß", k) \o Join(ps, "") : k \in 0..MaxSharpS, ps \in SeqsUpTo(Pieces, MaxPieces)}

InitSplit ==
    /\ AppIdle
    /\ fn_args \in [text : SplitInputs]
    /\ fn_ret = NotCalled

CallSplit ==
    /\ ~fn_ret.called
    /\ fn_ret' = [called |-> TRUE, again |-> FALSE,
                  value |-> split_worksheet_and_answer(fn_args.text)]
    /\ UNCHANGED <<fn_args, app_vars>>

\* The caller splits the returned body once more.
CallSplitOnBody ==
    /\ fn_ret.called
    /\ ~fn_ret.again
    /\ fn_ret' = [fn_ret EXCEPT !.again = TRUE] @@
                 [second |-> split_worksheet_and_answer(fn_ret.value[1])]
    /\ UNCHANGED <<fn_args, app_vars>>

SpecSplit == InitSplit /\ [][CallSplit \/ CallSplitOnBody]_vars

\* The positions (0-based) where the marker occurs in s, in any letter case,
\* compared character by character.
MarkerPositions(s) ==
    {i \in 0..(Len(s) - Len(marker)) :
        Lower(Slice(s, i, i + Len(marker))) = Lower(marker)}
FirstMarker(s) == CHOOSE i \in MarkerPositions(s) : \A j \in MarkerPositions(s) : i <= j
Contains(s, sub) == \E i \in 0..(Len(s) - Len(sub)) : Slice(s, i, i + Len(sub)) = sub

\* C6: the body holds no occurrence of the marker in any letter case and
\* nothing of the text from the first marker occurrence on (it lies within the
\* text before that occurrence), and the answer key begins with the marker as
\* found in the text, or is the placeholder when the text has no marker.
C6_SplitSafe ==
    fn_ret.called =>
        LET text == fn_args.text
            body == fn_ret.value[1]
            key == fn_ret.value[2]
        IN  /\ MarkerPositions(body) = {}
            /\ IF MarkerPositions(text) = {}
               THEN key = placeholder
               ELSE LET p == FirstMarker(text)
                    IN  /\ Contains(Slice(text, 0, p), body)
                        /\ StartsWith(key, Slice(text, p, p + Len(marker)))

\* C7: splitting the returned body again gives (body, placeholder).
C7_SplitIdempotent ==
    (fn_ret.called /\ fn_ret.again) =>
        fn_ret.second = <<fn_ret.value[1], placeholder>>

(***************************************************************************)
(* main(): the widgets, the session state and the two buttons.             *)
(*                                                                         *)
(* Every action below is one run of the script, started by one widget      *)
(* event; a run reads the widget values, handles the button that was       *)
(* clicked, and draws both tabs.  The uploaded students file and the       *)
(* generation engine's replies are inputs of the run.  The class-grade     *)
(* select box and the number-of-questions slider stay at their defaults.   *)
(***************************************************************************)
class_grade == 5
num_q == 5
levels == <<"Low", "Medium", "High">>

\* Values the threshold sliders and the curriculum-grade select boxes are moved
\* to, and the skills chosen in the "Choose skill" select box.
ThresholdChoices == {50, 75}
GradeChoices == {1, 5}
\* The tiers whose curriculum-grade select box is moved; the third one keeps
\* its default.
MovedTiers == {"Low", "Medium"}
SkillChoices == {"Grammar", "Writing"}

\* A file pd.read_csv cannot parse.
Unreadable == [unreadable |-> TRUE]

WideUpload ==
    [cols |-> WideCols,
     rows |-> << [StudentNumber |-> 1, StudentName |-> "Amal", LanguageFunction |-> 80,
                  ReadingComprehension |-> 60, Grammar |-> 40, Writing |-> 90],
                 [StudentNumber |-> 2, StudentName |-> "Sara", LanguageFunction |-> 50,
                  ReadingComprehension |-> 30, Grammar |-> 45, Writing |-> 75] >>]
LongUpload ==
    [cols |-> LongCols,
     rows |-> << [student_id |-> 7, student_name |-> "Noor", skill |-> "Grammar", score |-> 49],
                 [student_id |-> 8, student_name |-> "Hind", skill |-> "Grammar", score |-> 74],
                 [student_id |-> 7, student_name |-> "Noor", skill |-> "Writing", score |-> 75] >>]
PartialUpload ==
    [cols |-> SeqWithout(WideCols, "Writing"),
     rows |-> << Without(WideUpload.rows[1], "Writing") >>]
\* Long tables that have a score column and lack the skill column, or the
\* student_name column.
NoSkillUpload ==
    [cols |-> SeqWithout(LongCols, "skill"),
     rows |-> << [student_id |-> 9, student_name |-> "Mona", score |-> 40] >>]
NoNameUpload ==
    [cols |-> SeqWithout(LongCols, "student_name"),
     rows |-> << [student_id |-> 9, skill |-> "Grammar", score |-> 40] >>]
StudentFiles ==
    {None, Unreadable, WideUpload, LongUpload, PartialUpload, NoSkillUpload, NoNameUpload}

CurriculumBank ==
    [cols |-> BankCols,
     rows |-> << [grade |-> IntCell(1), skill |-> StrCell("grammar"), topic |-> StrCell("Nouns")],
                 [grade |-> IntCell(5), skill |-> StrCell("Writing"), topic |-> NaN] >>]
CurriculumFiles == {Unreadable, CurriculumBank}
\* What the curriculum uploader can hold.
CurriculumChoices == {None} \cup CurriculumFiles

\* What a generate_worksheet call does: the engine's text comes back, or the
\* call raises.
EngineReplies ==
    {Return("foo\nANSWER KEY:\n1) A"), Raise("APIError")}

\* df[name] = values (one value per row): a new last column, or an existing one
\* overwritten.
set_column(df, name, values) ==
    [cols |-> IF name \in Columns(df) THEN df.cols ELSE Append(df.cols, name),
     rows |-> [k \in DOMAIN df.rows |-> With(df.rows[k], name, values[k])]]

\* A variant that gives the Medium tier the grade of the High tier.
map_to_curriculum_two_grades(level, for_low, for_medium, for_high) ==
    IF level = "Low" THEN for_low ELSE for_high

map_to_curriculum(level, for_low, for_medium, for_high) ==
    IF level = "Low" THEN for_low
    ELSE IF level = "Medium" THEN for_medium
    ELSE for_high

\* A variant that returns the table unclassified when it has no score column.
process_student_data_unclassified(uploaded, low, high, for_low, for_medium, for_high) ==
    IF uploaded = Unreadable THEN Raise("ParserError")
    ELSE LET df0 == transform_thesis_format(uploaded)
             df1 == set_column(df0, "grade", [k \in DOMAIN df0.rows |-> class_grade])
         IN  IF "score" \notin Columns(df1) THEN Return(df1)
             ELSE LET df2 == set_column(df1, "level",
                                 [k \in DOMAIN df1.rows |->
                                     classify_level(df1.rows[k]["score"], low, high)])
                  IN  Return(set_column(df2, "target_curriculum_grade",
                                 [k \in DOMAIN df2.rows |->
                                     map_to_curriculum(df2.rows[k]["level"],
                                         for_low, for_medium, for_high)]))

\* Lines 573-577: what the try of "Process student data" computes, or raises.
process_student_data(uploaded, low, high, for_low, for_medium, for_high) ==
    IF uploaded = Unreadable THEN Raise("ParserError")
    ELSE LET df0 == transform_thesis_format(uploaded)
             df1 == set_column(df0, "grade", [k \in DOMAIN df0.rows |-> class_grade])
         IN  IF "score" \notin Columns(df1) THEN Raise("KeyError")
             ELSE LET df2 == set_column(df1, "level",
                                 [k \in DOMAIN df1.rows |->
                                     classify_level(df1.rows[k]["score"], low, high)])
                  IN  Return(set_column(df2, "target_curriculum_grade",
                                 [k \in DOMAIN df2.rows |->
                                     map_to_curriculum(df2.rows[k]["level"],
                                         for_low, for_medium, for_high)]))

\* A variant that selects on the level alone.
select_group_any_skill(df, selected_skill, selected_level) ==
    SelectSeq(df.rows, LAMBDA row : row["level"] = selected_level)

\* Line 618: target_df.
select_group(df, selected_skill, selected_level) ==
    SelectSeq(df.rows, LAMBDA row :
        row["skill"] = selected_skill /\ row["level"] = selected_level)

\* Line 610: the skills offered by the "Choose skill" select box.
skills(df) == {df.rows[k]["skill"] : k \in DOMAIN df.rows}

\* Lines 628-672: the loop over target_df from row i on.  engine[i] is what the
\* generate_worksheet call for row i does.  acc holds the calls issued and the
\* download buttons drawn so far; an exception leaves the loop (the try is
\* around the loop).
RECURSIVE generate_loop(_, _, _, _, _)
generate_loop(target_df, bank, engine, i, acc) ==
    IF i > Len(target_df) THEN [acc EXCEPT !.msg = "all_generated"]
    ELSE
      LET row == target_df[i]
          rag == build_rag_context(bank, row["skill"], row["target_curriculum_grade"])
      IN  IF rag.raised \/ "student_name" \notin DOMAIN row
          THEN [acc EXCEPT !.msg = "generating_error"]
          ELSE
            LET call == [student_name |-> row["student_name"],
                         student_grade |-> row["grade"],
                         curriculum_grade |-> row["target_curriculum_grade"],
                         skill |-> row["skill"],
                         level |-> row["level"],
                         num_questions |-> num_q,
                         rag_context |-> rag.value]
                issued == [acc EXCEPT !.requests = Append(@, call)]
            IN  IF engine[i].raised
                THEN [issued EXCEPT !.msg = "generating_error"]
                ELSE
                  LET parts == split_worksheet_and_answer(engine[i].value)
                  IN  generate_loop(target_df, bank, engine, i + 1,
                          [issued EXCEPT !.downloads = Append(@,
                              [student_name |-> row["student_name"],
                               worksheet |-> parts[1],
                               answer_key |-> parts[2]])])

\* Lines 604-620: what the "Generate Worksheets" tab shows when its button is
\* not clicked.  df["skill"] of line 610 is in no try: on a stored table without
\* that column the KeyError ends the script run.
render_generate_tab(df) ==
    IF df = None THEN "process_first"
    ELSE IF "skill" \notin Columns(df) THEN "unhandled_KeyError"
    ELSE "ready"

\* Lines 529-536, executed by every run: the file the uploader holds is read
\* and stored, or the error is reported; without a file, or with one that
\* cannot be read, the stored bank stays.
read_curriculum(file, stored) ==
    IF file = None \/ file = Unreadable THEN stored ELSE file
curriculum_report(file) ==
    IF file = None THEN "none"
    ELSE IF file = Unreadable THEN "curriculum_error"
    ELSE "preview"
LoadCurriculum ==
    /\ curriculum_df' = read_curriculum(curriculum_file', curriculum_df)
    /\ curriculum_msg' = curriculum_report(curriculum_file')

\* The part of a run that is common to the runs without a "Generate" click.
NoGenerateClick ==
    /\ generate_msg' = render_generate_tab(processed_df')
    /\ selection' = None
    /\ requests' = <<>>
    /\ downloads' = <<>>

SetLowThreshold(v) ==
    /\ v # low_thr
    /\ low_thr' = v
    /\ process_msg' = "none"
    /\ UNCHANGED <<high_thr, grade_for_low, grade_for_medium, grade_for_high,
                   processed_df, curriculum_file, proc_cfg, fn_vars>>
    /\ LoadCurriculum
    /\ NoGenerateClick

SetHighThreshold(v) ==
    /\ v # high_thr
    /\ high_thr' = v
    /\ process_msg' = "none"
    /\ UNCHANGED <<low_thr, grade_for_low, grade_for_medium, grade_for_high,
                   processed_df, curriculum_file, proc_cfg, fn_vars>>
    /\ LoadCurriculum
    /\ NoGenerateClick

SetCurriculumGrade(level, g) ==
    /\ g # map_to_curriculum(level, grade_for_low, grade_for_medium, grade_for_high)
    /\ grade_for_low' = IF level = "Low" THEN g ELSE grade_for_low
    /\ grade_for_medium' = IF level = "Medium" THEN g ELSE grade_for_medium
    /\ grade_for_high' = IF level = "High" THEN g ELSE grade_for_high
    /\ process_msg' = "none"
    /\ UNCHANGED <<low_thr, high_thr, processed_df, curriculum_file, proc_cfg, fn_vars>>
    /\ LoadCurriculum
    /\ NoGenerateClick

\* Lines 523-527: another file is chosen in the curriculum uploader, or the
\* file it holds is removed (file = None); the run that follows reads it.
UploadCurriculum(file) ==
    /\ file # curriculum_file
    /\ curriculum_file' = file
    /\ process_msg' = "none"
    /\ UNCHANGED <<low_thr, high_thr, grade_for_low, grade_for_medium, grade_for_high,
                   processed_df, proc_cfg, fn_vars>>
    /\ LoadCurriculum
    /\ NoGenerateClick

\* A run in which none of the widgets above changes and no button is clicked:
\* the students file is chosen or removed, the skill or the level select box
\* of the "Generate Worksheets" tab is changed, or a download button is
\* clicked.  (The class-grade select box and the number-of-questions slider
\* are not moved: class_grade and num_q are their defaults.)
Rerun ==
    /\ process_msg' = "none"
    /\ UNCHANGED <<low_thr, high_thr, grade_for_low, grade_for_medium, grade_for_high,
                   processed_df, curriculum_file, proc_cfg, fn_vars>>
    /\ LoadCurriculum
    /\ NoGenerateClick

\* Lines 568-585: "Process student data" is clicked with `uploaded` in the
\* file uploader.
ProcessClick(uploaded) ==
    /\ IF uploaded = None
       THEN /\ process_msg' = "upload_first"
            /\ UNCHANGED <<processed_df, proc_cfg>>
       ELSE LET r == process_student_data(uploaded, low_thr, high_thr,
                         grade_for_low, grade_for_medium, grade_for_high)
            IN  IF r.raised
                THEN /\ process_msg' = "processing_error"
                     /\ UNCHANGED <<processed_df, proc_cfg>>
                ELSE /\ processed_df' = r.value
                     /\ proc_cfg' = [uploaded |-> uploaded,
                                     low_thr |-> low_thr, high_thr |-> high_thr,
                                     grade_for_low |-> grade_for_low,
                                     grade_for_medium |-> grade_for_medium,
                                     grade_for_high |-> grade_for_high]
                     /\ process_msg' = "success"
    /\ UNCHANGED <<low_thr, high_thr, grade_for_low, grade_for_medium, grade_for_high,
                   curriculum_file, fn_vars>>
    /\ LoadCurriculum
    /\ NoGenerateClick

\* Lines 622-676: "Generate PDFs for this group" is clicked with a skill and a
\* level chosen; engine is what the engine does for each row of the group.
GenerateClick(selected_skill, selected_level, engine) ==
    /\ LET target_df == select_group(processed_df, selected_skill, selected_level)
           start == [requests |-> <<>>, downloads |-> <<>>, msg |-> "generating"]
           run == IF target_df = <<>> THEN [start EXCEPT !.msg = "no_match"]
                  ELSE generate_loop(target_df,
                           read_curriculum(curriculum_file, curriculum_df), engine, 1, start)
       IN  /\ DOMAIN engine = DOMAIN target_df
           /\ selection' = [skill |-> selected_skill, level |-> selected_level,
                            target_df |-> target_df, engine |-> engine]
           /\ requests' = run.requests
           /\ downloads' = run.downloads
           /\ generate_msg' = run.msg
    /\ process_msg' = "none"
    /\ UNCHANGED <<low_thr, high_thr, grade_for_low, grade_for_medium, grade_for_high,
                   processed_df, curriculum_file, proc_cfg, fn_vars>>
    /\ LoadCurriculum

\* The "Generate" button exists once a table is stored and line 610 has read
\* its skills; the teacher chooses one of them and a level, and the engine
\* answers each call of the run.
Generate ==
    /\ render_generate_tab(processed_df) = "ready"
    /\ \E selected_skill \in skills(processed_df) \cap SkillChoices,
          selected_level \in Range(levels) :
          \E engine \in [1..Len(select_group(processed_df, selected_skill, selected_level))
                            -> EngineReplies] :
             GenerateClick(selected_skill, selected_level, engine)

Init ==
    /\ AppIdle
    /\ fn_args = None
    /\ fn_ret = NotCalled

Next ==
    \/ \E v \in ThresholdChoices : SetLowThreshold(v)
    \/ \E v \in ThresholdChoices : SetHighThreshold(v)
    \/ \E level \in MovedTiers, g \in GradeChoices : SetCurriculumGrade(level, g)
    \/ \E file \in CurriculumChoices : UploadCurriculum(file)
    \/ Rerun
    \/ \E uploaded \in StudentFiles : ProcessClick(uploaded)
    \/ Generate

Spec == Init /\ [][Next]_vars

(***************************************************************************)
(* Properties of the session state machine                                 *)
(***************************************************************************)
\* The grade the configuration cfg gives to a tier.
TierGrade(level, cfg) ==
    CASE level = "Low" -> cfg.grade_for_low
      [] level = "Medium" -> cfg.grade_for_medium
      [] level = "High" -> cfg.grade_for_high
\* The widget values of the current state, as a configuration.
CurrentCfg ==
    [low_thr |-> low_thr, high_thr |-> high_thr, grade_for_low |-> grade_for_low,
     grade_for_medium |-> grade_for_medium, grade_for_high |-> grade_for_high]

\* C2: no table has been classified (by a "Process student data" run) with a
\* low threshold greater than or equal to the high threshold.
C2_ThresholdsValidated ==
    proc_cfg # None => proc_cfg.low_thr < proc_cfg.high_thr

\* C8: after a "Generate" run, every student of the selected group whose own
\* generation call does not fail has a worksheet and an answer key, whichever
\* other students' calls failed.
C8_FailureIsolated ==
    selection # None =>
        \A i \in DOMAIN selection.target_df :
            ("student_name" \in DOMAIN selection.target_df[i]
                /\ ~selection.engine[i].raised) =>
                \E k \in DOMAIN downloads :
                    downloads[k].student_name = selection.target_df[i]["student_name"]

\* C9: the group of a "Generate" run is, in order, exactly the records of the
\* processed score table that have the selected skill and whose score
\* classifies into the selected tier under the thresholds of the processing;
\* the requests issued are for these records, in order, and each carries the
\* grade configured for the selected tier at the processing; a run without a
\* failure issues a request for every record of the group.
C9_EndToEndSelection ==
    selection # None =>
        LET records == transform_thesis_format(proc_cfg.uploaded).rows
            want == {k \in DOMAIN records :
                        /\ records[k]["skill"] = selection.skill
                        /\ classify_level(records[k]["score"],
                               proc_cfg.low_thr, proc_cfg.high_thr) = selection.level}
            target_df == selection.target_df
        IN  /\ Len(target_df) = Cardinality(want)
            /\ \A i \in DOMAIN target_df :
                  [c \in DOMAIN records[NthOf(want, i)] |-> target_df[i][c]]
                      = records[NthOf(want, i)]
            /\ Len(requests) <= Len(target_df)
            /\ \A i \in DOMAIN requests :
                  /\ requests[i].student_name = target_df[i]["student_name"]
                  /\ requests[i].skill = selection.skill
                  /\ requests[i].level = selection.level
                  /\ requests[i].curriculum_grade = TierGrade(selection.level, proc_cfg)
            /\ generate_msg = "all_generated" => Len(requests) = Len(target_df)

\* The table of two students was processed with thresholds 50 / 75; Grammar and
\* Low were selected; both students are in the group and a request with the
\* Low tier's grade was issued for each.
C9_Witness ==
    /\ selection # None
    /\ proc_cfg.uploaded = WideUpload
    /\ proc_cfg.low_thr = 50 /\ proc_cfg.high_thr = 75
    /\ selection.skill = "Grammar" /\ selection.level = "Low"
    /\ Len(selection.target_df) = 2
    /\ Len(requests) = 2
    /\ \A i \in 1..2 : requests[i].curriculum_grade = proc_cfg.grade_for_low

\* The tier and the target grade a request was issued with, against the
\* classification and mapping of its record's score under cfg.
RequestsFollow(cfg) ==
    \A i \in DOMAIN requests :
        LET tier == classify_level(selection.target_df[i]["score"],
                                   cfg.low_thr, cfg.high_thr)
        IN  /\ requests[i].level = tier
            /\ requests[i].curriculum_grade = TierGrade(tier, cfg)

\* C10 as stated: every issued request uses the tier and target grade of its
\* record under the thresholds and grades in force when it is issued.
C10_RecomputedOnDemand ==
    selection # None => RequestsFollow(CurrentCfg)

\* C10 as amended: every issued request uses the tier and target grade of its
\* record under the thresholds and grades read by the latest successful
\* "Process student data" run.
C10_ComputedAtProcessing ==
    selection # None => RequestsFollow(proc_cfg)

\* A request was issued after the configuration was changed without
\* processing again: its tier is not the one the current thresholds give.
C10_Witness ==
    /\ selection # None
    /\ requests # <<>>
    /\ CurrentCfg # [c \in DOMAIN CurrentCfg |-> proc_cfg[c]]
    /\ requests[1].level # classify_level(selection.target_df[1]["score"], low_thr, high_thr)

\* C11: a stage that needs a canonical column the table lacks ends in a
\* handled error and does nothing else: no "Process student data" run over a
\* table without score ends in success; a stored table without skill gives a
\* handled error at the group selection, never an exception that ends the
\* script run; a "Generate" run over a group without student_name ends in the
\* handled error, with no request issued and no download drawn.
C11_MissingColumnHandled ==
    /\ process_msg = "success" =>
           "score" \in Columns(transform_thesis_format(proc_cfg.uploaded))
    /\ generate_msg # "unhandled_KeyError"
    /\ (processed_df # None /\ "skill" \notin Columns(processed_df)) =>
           generate_msg = "generating_error"
    /\ (selection # None /\ selection.target_df # <<>>
           /\ "student_name" \notin Columns(processed_df)) =>
           (generate_msg = "generating_error" /\ requests = <<>> /\ downloads = <<>>)

(***************************************************************************)
(* build_skill_instruction (lines 66-92) and specification SpecSkill: the  *)
(* function on every skill name made of up to MaxWords of the pieces       *)
(* below.                                                                  *)
(***************************************************************************)
\* The five texts the function returns (lines 70-73, 75-78, 80-83, 85-88,
\* 89-92).
grammar_instruction ==
    "Focus the questions on grammar usage, sentence structure, verb tenses, "
    \o "and error-correction style MCQs, appropriate for the target grade."
reading_instruction ==
    "Focus the questions on reading comprehension: main idea, details, "
    \o "inference, and vocabulary in context related to the passage."
writing_instruction ==
    "Focus the questions on writing skills: organising ideas, choosing "
    \o "correct connectors, and building clear sentences."
language_function_instruction ==
    "Focus the questions on language functions such as making requests, "
    \o "giving advice, asking for information, agreeing and disagreeing, etc."
generic_instruction ==
    "Make sure the questions clearly practise the given skill in an "
    \o "age-appropriate way."

\* sub in s, of Python strings.
In(sub, s) == Find(s, sub) # -1

\* A variant that tests for "reading" before "grammar".
build_skill_instruction_reading_first(skill) ==
    LET s == Lower(skill)
    IN  IF In("reading", s) THEN reading_instruction
        ELSE IF In("grammar", s) THEN grammar_instruction
        ELSE IF In("writing", s) THEN writing_instruction
        ELSE IF In("languagefunction", s) \/ In("language function", s)
             THEN language_function_instruction
        ELSE generic_instruction

build_skill_instruction(skill) ==
    LET s == Lower(skill)
    IN  IF In("grammar", s) THEN grammar_instruction
        ELSE IF In("reading", s) THEN reading_instruction
        ELSE IF In("writing", s) THEN writing_instruction
        ELSE IF In("languagefunction", s) \/ In("language function", s)
             THEN language_function_instruction
        ELSE generic_instruction

MaxWords == 3
SkillPieces == {"Grammar", "READING", "writing", "Language", "Function", " ", "Vocabulary"}

\* The concatenation of a sequence of strings.
RECURSIVE Concat(_)
Concat(parts) == IF parts = <<>> THEN "" ELSE Head(parts) \o Concat(Tail(parts))

SkillNames == {Concat(parts) : parts \in SeqsUpTo(SkillPieces, MaxWords)}

InitSkill ==
    /\ AppIdle
    /\ fn_args \in [skill : SkillNames]
    /\ fn_ret = NotCalled

CallSkill ==
    /\ ~fn_ret.called
    /\ fn_ret' = [called |-> TRUE, value |-> build_skill_instruction(fn_args.skill)]
    /\ UNCHANGED <<fn_args, app_vars>>

SpecSkill == InitSkill /\ [][CallSkill]_vars

\* The keyword kw occurs in name, letter case disregarded.
KeywordOccurs(name, kw) ==
    \E i \in 1..(Len(name) - Len(kw) + 1) :
        Lower(SubSeq(name, i, i + Len(kw) - 1)) = kw
\* The keywords of each rule, in the order of priority, and the rules' texts.
RuleKeywords ==
    << {"grammar"}, {"reading"}, {"writing"}, {"languagefunction", "language function"} >>
RuleInstructions ==
    << grammar_instruction, reading_instruction, writing_instruction,
       language_function_instruction >>
\* The rules that have a keyword occurring in name.
MatchedRules(name) ==
    {r \in DOMAIN RuleKeywords : \E kw \in RuleKeywords[r] : KeywordOccurs(name, kw)}

\* C12: for every skill name, the instruction returned is that of the first
\* rule, in the order grammar, reading, writing, language function, that has a
\* keyword occurring in the name in any letter case, wherever in the name the
\* keywords stand; it is the generic instruction exactly when no keyword
\* occurs.
C12_FirstMatchPriority ==
    fn_ret.called /\ "skill" \in DOMAIN fn_args =>
        LET m == MatchedRules(fn_args.skill)
        IN  /\ \A r \in m : (\A q \in m : r <= q) => fn_ret.value = RuleInstructions[r]
            /\ (fn_ret.value = generic_instruction) <=> (m = {})

\* The function was called on a name where "reading" stands before "grammar"
\* and "writing" after it, and returned the grammar instruction.
C12_Witness ==
    /\ fn_ret.called
    /\ "skill" \in DOMAIN fn_args
    /\ fn_args.skill = "READINGGrammarwriting"
    /\ MatchedRules(fn_args.skill) = {1, 2, 3}
    /\ fn_ret.value = grammar_instruction

(***************************************************************************)
(* The stored table across the runs of specification Spec                  *)
(***************************************************************************)
\* C13: in every run, the stored processed table changes only when the run is
\* a "Process student data" run that succeeds, over a readable file whose
\* normalized table has the score column, and the table stored is classified
\* and mapped; a run that ends in "upload first" or in the processing error
\* leaves the stored table as it was; and a run issues generation requests
\* only with a table stored before it, which it leaves as it was.
C13_StoredTableFrame ==
    [][ /\ processed_df' # processed_df =>
              /\ process_msg' = "success"
              /\ proc_cfg' # None
              /\ proc_cfg'.uploaded \notin {None, Unreadable}
              /\ "score" \in Columns(transform_thesis_format(proc_cfg'.uploaded))
              /\ {"grade", "level", "target_curriculum_grade"} \subseteq Columns(processed_df')
        /\ process_msg' \in {"upload_first", "processing_error"} =>
              processed_df' = processed_df
        /\ requests' # <<>> => (processed_df # None /\ processed_df' = processed_df)
      ]_vars

\* A table is stored and the run just made was a "Process student data" run
\* that failed: the stored table is still the one of the earlier processing
\* of the two-student file.
C13_Witness ==
    /\ process_msg = "processing_error"
    /\ processed_df # None
    /\ proc_cfg.uploaded = WideUpload
    /\ Len(processed_df.rows) = 8
====
